---- MODULE Spec2Model ----
(***************************************************************************)
(* Storage layer of ByteStation-SDF (src/server/storage.ts): the mongoose  *)
(* schemas, the connection bootstrap that admits a default administrator,  *)
(* and the Storage class.                                                  *)
(*                                                                         *)
(* The document store is modelled by the two collections the operations    *)
(* under study touch (users, projects).  A driver call is one atomic step  *)
(* of the store; the bootstrap (findOne, then create) and createUser (the  *)
(* call, then the insert) are in flight between their steps, so other      *)
(* operations interleave with them.  Documents carry the fields the        *)
(* operations read; data: InsertUser carries every required field.         *)
(*                                                                         *)
(* JavaScript strings are sequences of one-character strings.  undefined   *)
(* and null are the tokens Undefined and Null, distinct from every string. *)
(* Document ids are positive integers; NullId, MalformedId and UndefinedId *)
(* stand for null, for a value that is no 24-hex ObjectId string, and for  *)
(* undefined.  Dates are the values of the clock now.                      *)
(*                                                                         *)
(* Specifications: SpecUsers (User operations and bootstrap), SpecRace     *)
(* (createUser calls in flight together), SpecProjects (Project writes),   *)
(* SpecList (listProjects, with a connection that comes and goes),         *)
(* SpecCreate (createProject over a grid of inputs) and Spec, their union. *)
(* All start from Init: an empty store and a process not yet started.      *)
(***************************************************************************)
EXTENDS Integers, Sequences, FiniteSets, TLC

\* ------------------------------------------------------------------ bounds
MaxPad == 1         \* blanks put in front of / behind an input text
MaxId == 3          \* ids the store hands out before the model stops inserting
MaxClock == 1       \* largest value of the millisecond clock
MaxProjects == 2    \* projects stored together before the model stops inserting

\* ------------------------------------------------------- program constants
MinTitleLen == 10
MinDescriptionLen == 50
MinRequirementsLen == 20

\* ------------------------------------------------------------- JS values
Undefined == <<"undefined">>
Null == <<"null">>

Truthy(v) == v # Undefined /\ v # Null /\ v # <<>>

\* a || b
OrElse(a, b) == IF Truthy(a) THEN a ELSE b

Rep(c, n) == [i \in 1..n |-> c]

IsSpace(c) == c = " "

\* index of the first non-blank character at or after i (Len(s) + 1 if none)
RECURSIVE FirstKept(_, _)
FirstKept(s, i) ==
  IF i > Len(s) THEN i ELSE IF IsSpace(s[i]) THEN FirstKept(s, i + 1) ELSE i

\* index of the last non-blank character at or before i (0 if none)
RECURSIVE LastKept(_, _)
LastKept(s, i) ==
  IF i < 1 THEN i ELSE IF IsSpace(s[i]) THEN LastKept(s, i - 1) ELSE i

NoTrim(s) == s

\* String.prototype.trim
Trim(s) == SubSeq(s, FirstKept(s, 1), LastKept(s, Len(s)))

\* s?.trim()
OptTrim(s) == IF s = Undefined \/ s = Null THEN Undefined ELSE Trim(s)

\* ------------------------------------------------------------------- ids
NullId == 0
MalformedId == 0 - 1
UndefinedId == 0 - 2
DanglingId == MaxId + 1      \* a well-formed id the store never hands out

\* new mongoose.Types.ObjectId(s) and mongoose's cast of a query id succeed
IsObjectId(id) == id > 0

\* --------------------------------------------------------------- results
Returned(v) == [kind |-> "value", value |-> v]
Found(doc) == [kind |-> "doc", value |-> doc]
NotFound == [kind |-> "null", value |-> Null]
Threw(e) == [kind |-> "throw", value |-> e]
None == [kind |-> "none", value |-> Null]

\* ----------------------------------------------------------------- state
VARIABLES
  users,      \* the users collection: a set of User documents
  projects,   \* the projects collection: a set of Project documents
  nextId,     \* the next ObjectId the driver generates
  now,        \* Date.now
  phase,      \* the process: "down", "connecting", "checking", "creating", "up"
  calls,      \* createUser calls: caller -> [pc, data, res, raced]; raced records
              \* that another call was in flight while this one was
  storeUp,    \* whether the store answers the driver
  last        \* the step taken last: [op, arg, res]

vars == <<users, projects, nextId, now, phase, calls, storeUp, last>>

Did(op, arg, res) == [op |-> op, arg |-> arg, res |-> res]

\* ------------------------------------------------------------ UserSchema
AdminName == <<"A", "d", "m", "i", "n", " ", "U", "s", "e", "r">>
AnnName == <<"A", "n", "n">>

Usernames == {"admin", "ann"}
Emails == {"admin@example.com", "ann@example.com"}

\* data: InsertUser carries every required field of UserSchema
UserInputs ==
  [username : Usernames, email : Emails, userType : {"client"}, fullName : {AnnName}]
    \cup {[username |-> "ann", email |-> "ann@example.com", userType |-> "admin",
           fullName |-> AnnName]}

\* new UserModel(data): the schema defaults fill what data leaves out
UserDoc(id, data) ==
  [id |-> id, username |-> data.username, email |-> data.email,
   userType |-> data.userType, fullName |-> data.fullName, isVerified |-> FALSE]

UniqueOnEmailOnly(data, us) == \E u \in us : u.email = data.email

UniqueOnUsernameOnly(data, us) == \E u \in us : u.username = data.username

\* the unique indexes on username and email reject the insert (E11000)
DuplicateKey(data, us) ==
  \E u \in us : u.username = data.username \/ u.email = data.email

Admins(us) == {u \in us : u.userType = "admin"}

DefaultAdmin ==
  [username |-> "admin", email |-> "admin@example.com", userType |-> "admin",
   fullName |-> AdminName]

\* ------------------------------------------------------------- the store
Connected == phase \in {"checking", "creating", "up"}
Alive == phase # "down"

Callers == {"a", "b"}
IdleCall == [pc |-> "idle", data |-> Null, res |-> None, raced |-> FALSE]
NoCalls == [c \in Callers |-> IdleCall]

\* document.save() / Model.create(): one insert, atomic in the store
InsertUser(data) ==
  IF ~storeUp THEN Threw("StoreError")
  ELSE IF DuplicateKey(data, users) THEN Threw("Conflict")
  ELSE Found(UserDoc(nextId, data))

\* mongoose casts the id of a query; a malformed id is a CastError
FindById(coll, id) ==
  IF ~IsObjectId(id) THEN Threw("CastError")
  ELSE IF ~storeUp THEN Threw("StoreError")
  ELSE IF \E d \in coll : d.id = id THEN Found(CHOOSE d \in coll : d.id = id)
  ELSE NotFound

\* the fields of a partial update replace those of the document ($set)
EmptyPatch == [f \in {} |-> Null]

MergeReplace(doc, patch) ==
  [f \in DOMAIN doc |->
     IF f \in DOMAIN patch THEN patch[f]
     ELSE IF f = "isVerified" THEN FALSE ELSE doc[f]]

Merge(doc, patch) ==
  [f \in DOMAIN doc |-> IF f \in DOMAIN patch THEN patch[f] ELSE doc[f]]

\* Model.findByIdAndUpdate(id, data, { new: true })
FindByIdAndUpdate(coll, id, patch) ==
  LET r == FindById(coll, id)
  IN IF r.kind = "doc" THEN Found(Merge(r.value, patch)) ELSE r

Init ==
  /\ users = {}
  /\ projects = {}
  /\ nextId = 1
  /\ now = 0
  /\ phase = "down"
  /\ calls = NoCalls
  /\ storeUp = TRUE
  /\ last = Did("none", Null, None)

\* ------------------------------------------------- connection bootstrap
\* the module is loaded: mongoose.connect(mongoUrl, ...) is issued
Start ==
  /\ phase = "down"
  /\ phase' = "connecting"
  /\ last' = Did("start", Null, None)
  /\ UNCHANGED <<users, projects, nextId, now, calls, storeUp>>

\* the process ends (process.exit(1), or the host stops it)
Exit == /\ phase' = "down" /\ calls' = NoCalls

\* connect resolves (.then) or rejects (.catch: process.exit(1))
Connect ==
  /\ phase = "connecting"
  /\ IF storeUp THEN phase' = "checking" /\ calls' = calls ELSE Exit
  /\ last' = Did("connect", Null, None)
  /\ UNCHANGED <<users, projects, nextId, now, storeUp>>

\* const adminExists = await UserModel.findOne({ userType: 'admin' })
BootFind ==
  /\ phase = "checking"
  /\ IF ~storeUp THEN Exit
     ELSE /\ phase' = IF Admins(users) # {} THEN "up" ELSE "creating"
          /\ calls' = calls
  /\ last' = Did("bootFind", Null, None)
  /\ UNCHANGED <<users, projects, nextId, now, storeUp>>

\* if (!adminExists) await UserModel.create({...})
BootCreate ==
  /\ phase = "creating"
  /\ nextId <= MaxId
  /\ LET r == InsertUser(DefaultAdmin)
     IN /\ IF r.kind = "doc"
           THEN /\ users' = users \cup {r.value}
                /\ nextId' = nextId + 1
                /\ phase' = "up"
                /\ calls' = calls
           ELSE /\ Exit
                /\ UNCHANGED <<users, nextId>>
        /\ last' = Did("bootCreate", Null, r)
  /\ UNCHANGED <<projects, now, storeUp>>

\* the host stops the running process; the store keeps its documents
Stop ==
  /\ phase = "up"
  /\ Exit
  /\ last' = Did("stop", Null, None)
  /\ UNCHANGED <<users, projects, nextId, now, storeUp>>

\* ------------------------------------------------------- User operations
\* createUser: const user = new UserModel(data); user.save() is awaited
CreateUserCall(c, data) ==
  /\ Alive
  /\ calls[c].pc # "saving"
  /\ LET inFlight == \E o \in Callers \ {c} : calls[o].pc = "saving"
     IN calls' = [o \in Callers |->
                    IF o = c
                    THEN [pc |-> "saving", data |-> data, res |-> None, raced |-> inFlight]
                    ELSE IF calls[o].pc = "saving"
                         THEN [calls[o] EXCEPT !.raced = TRUE]
                         ELSE calls[o]]
  /\ last' = Did("createUser.call", c, None)
  /\ UNCHANGED <<users, projects, nextId, now, phase, storeUp>>

\* createUser: the insert reaches the store and the call returns or throws
CreateUserSave(c) ==
  /\ Connected
  /\ calls[c].pc = "saving"
  /\ nextId <= MaxId
  /\ LET r == InsertUser(calls[c].data)
     IN /\ users' = IF r.kind = "doc" THEN users \cup {r.value} ELSE users
        /\ nextId' = IF r.kind = "doc" THEN nextId + 1 ELSE nextId
        /\ calls' = [calls EXCEPT ![c] = [@ EXCEPT !.pc = "done", !.res = r]]
  /\ last' = Did("createUser.save", c, None)
  /\ UNCHANGED <<projects, now, phase, storeUp>>

\* ids a caller may pass: none, malformed, well-formed
IdInputs == {UndefinedId, MalformedId} \cup (1..MaxId) \cup {DanglingId}

Rethrow(r) == r

\* try { ... } catch (error) { console.error(...); return null; }
CatchNull(r) == IF r.kind = "throw" THEN NotFound ELSE r

\* getUser: id.toString() and UserModel.findById inside the try
GetUser(id) ==
  /\ Connected
  /\ LET r == IF id = UndefinedId THEN Threw("TypeError") ELSE FindById(users, id)
     IN last' = Did("getUser", id, CatchNull(r))
  /\ UNCHANGED <<users, projects, nextId, now, phase, calls, storeUp>>

UserPatches == {EmptyPatch, "isVerified" :> TRUE}

\* updateUser: UserModel.findByIdAndUpdate(id, data, { new: true })
UpdateUser(id, patch) ==
  /\ Connected
  /\ LET r == FindByIdAndUpdate(users, id, patch)
     IN /\ users' = IF r.kind = "doc"
                    THEN {u \in users : u.id # id} \cup {r.value}
                    ELSE users
        /\ last' = Did("updateUser", [id |-> id, patch |-> patch], r)
  /\ UNCHANGED <<projects, nextId, now, phase, calls, storeUp>>

\* --------------------------------------------------------- ProjectSchema
DefaultBudget == <<"$", "1", ",", "0", "0", "0", " ", "-", " ", "$", "5", ",", "0", "0", "0">>
DefaultTimeframe == <<"2", "-", "4", " ", "w", "e", "e", "k", "s">>
Open == <<"o", "p", "e", "n">>
Untitled == <<"U", "n", "t", "i", "t", "l", "e", "d">>
NoDescription == <<"N", "o", " ", "d", "e", "s", "c", "r", "i", "p", "t", "i", "o", "n", " ", "p", "r", "o", "v", "i", "d", "e", "d">>
UnknownClient == <<"U", "n", "k", "n", "o", "w", "n", " ", "C", "l", "i", "e", "n", "t">>

IsArray(v) == v # Undefined /\ v # Null

\* the object literal of createProject: coerced, trimmed and defaulted fields
ProjectData(data) ==
  [clientId |-> data.clientId,
   title |-> OptTrim(data.title),
   description |-> OptTrim(data.description),
   requirements |-> OptTrim(data.requirements),
   budget |-> OrElse(data.budget, DefaultBudget),
   timeframe |-> OrElse(data.timeframe, DefaultTimeframe),
   additionalDetails |-> OptTrim(data.additionalDetails),
   status |-> OrElse(data.status, Open),
   skills |-> IF IsArray(data.skills) THEN data.skills ELSE <<>>]

\* !v || v.length < min
TooShort(v, min) == ~Truthy(v) \/ Len(v) < min

\* the three length checks, in the order of the code; "" when all pass
ValidationError(pd) ==
  IF TooShort(pd.title, MinTitleLen)
  THEN "Project title must be at least 10 characters long"
  ELSE IF TooShort(pd.description, MinDescriptionLen)
  THEN "Project description must be at least 50 characters long"
  ELSE IF TooShort(pd.requirements, MinRequirementsLen)
  THEN "Project requirements must be at least 20 characters long"
  ELSE ""

\* new ProjectModel(projectData): _id and createdAt (default Date.now) added
ProjectDoc(id, pd) ==
  [id |-> id, clientId |-> pd.clientId, title |-> pd.title,
   description |-> pd.description, requirements |-> pd.requirements,
   budget |-> pd.budget, timeframe |-> pd.timeframe,
   additionalDetails |-> pd.additionalDetails, status |-> pd.status,
   skills |-> pd.skills, createdAt |-> now]

\* createProject up to its result: coercion of clientId, validation, save
CreateProjectResult(data) ==
  IF data.clientId = UndefinedId THEN Threw("TypeError")
  ELSE IF ~IsObjectId(data.clientId) THEN Threw("BSONError")
  ELSE LET pd == ProjectData(data)
       IN IF ValidationError(pd) # "" THEN Threw(ValidationError(pd))
          ELSE IF ~storeUp THEN Threw("StoreError")
          ELSE Found(ProjectDoc(nextId, pd))

\* ---------------------------------------------------- Project operations
\* createProject: the whole try block; the catch logs and rethrows
CreateProject(data) ==
  /\ Connected
  /\ nextId <= MaxId
  /\ Cardinality(projects) < MaxProjects
  /\ LET r == CreateProjectResult(data)
     IN /\ projects' = IF r.kind = "doc" THEN projects \cup {r.value} ELSE projects
        /\ nextId' = IF r.kind = "doc" THEN nextId + 1 ELSE nextId
        /\ last' = Did("createProject", data, r)
  /\ UNCHANGED <<users, now, phase, calls, storeUp>>

\* updateProject: ProjectModel.findByIdAndUpdate(id, data, { new: true })
UpdateProject(id, patch) ==
  /\ Connected
  /\ LET r == FindByIdAndUpdate(projects, id, patch)
     IN /\ projects' = IF r.kind = "doc"
                       THEN {p \in projects : p.id # id} \cup {r.value}
                       ELSE projects
        /\ last' = Did("updateProject", [id |-> id, patch |-> patch], r)
  /\ UNCHANGED <<users, nextId, now, phase, calls, storeUp>>

\* deleteProject: ProjectModel.findByIdAndDelete(id)
DeleteProject(id) ==
  /\ Connected
  /\ LET r == FindById(projects, id)
     IN /\ projects' = IF r.kind = "doc" THEN projects \ {r.value} ELSE projects
        /\ last' = Did("deleteProject", id, r)
  /\ UNCHANGED <<users, nextId, now, phase, calls, storeUp>>

Range(seq) == {seq[i] : i \in DOMAIN seq}

CountRequested(ids, coll) == Len(ids)

\* result.deletedCount of deleteMany({ _id: { $in: ids } })
DeletedCount(ids, coll) == Cardinality({p \in coll : p.id \in Range(ids)})

\* deleteProjects: deleteMany casts every id of the $in array
DeleteProjects(ids) ==
  /\ Connected
  /\ LET r == IF \E i \in DOMAIN ids : ~IsObjectId(ids[i]) THEN Threw("CastError")
              ELSE IF ~storeUp THEN Threw("StoreError")
              ELSE Returned(DeletedCount(ids, projects))
     IN /\ projects' = IF r.kind = "value"
                       THEN {p \in projects : p.id \notin Range(ids)}
                       ELSE projects
        /\ last' = Did("deleteProjects", ids, r)
  /\ UNCHANGED <<users, nextId, now, phase, calls, storeUp>>

\* populate('clientId', ...): the owning User, or null when none has that id
Populate(p, us) ==
  IF \E u \in us : u.id = p.clientId
  THEN Found(CHOOSE u \in us : u.id = p.clientId)
  ELSE NotFound

RawView(p, us) ==
  LET owner == Populate(p, us)
  IN [id |-> p.id, title |-> p.title, description |-> p.description,
      requirements |-> p.requirements, budget |-> p.budget,
      timeframe |-> p.timeframe, status |-> p.status,
      additionalDetails |-> p.additionalDetails, skills |-> p.skills,
      clientId |-> IF owner.kind = "doc" THEN owner.value.id ELSE NullId,
      clientName |-> IF owner.kind = "doc" THEN owner.value.fullName ELSE Undefined,
      createdAt |-> p.createdAt]

\* the object built by projects.map: toObject() spread, then the fallbacks
ProjectView(p, us) ==
  LET owner == Populate(p, us)
  IN [id |-> p.id,
      title |-> OrElse(p.title, Untitled),
      description |-> OrElse(p.description, NoDescription),
      requirements |-> OrElse(p.requirements, <<>>),
      budget |-> OrElse(p.budget, DefaultBudget),
      timeframe |-> OrElse(p.timeframe, DefaultTimeframe),
      status |-> OrElse(p.status, Open),
      additionalDetails |-> p.additionalDetails,
      skills |-> p.skills,
      clientId |-> IF owner.kind = "doc" THEN owner.value.id ELSE NullId,
      clientName |-> OrElse(IF owner.kind = "doc" THEN owner.value.fullName
                            ELSE Undefined, UnknownClient),
      createdAt |-> p.createdAt]

\* .sort({ createdAt: -1 }): any order of the documents that is newest first
SortedDesc(docs) ==
  {s \in [1..Cardinality(docs) -> docs] :
     /\ \A i, j \in DOMAIN s : i # j => s[i] # s[j]
     /\ \A i, j \in DOMAIN s : i < j => s[i].createdAt >= s[j].createdAt}

RethrowList(r) == r

\* catch (error) { console.error(...); return []; }
CatchEmpty(r) == IF r.kind = "throw" THEN Returned(<<>>) ELSE r

\* listProjects: find(query).populate(...).sort(...), then the map
ListProjects(status) ==
  /\ Connected
  /\ LET matching == {p \in projects : Truthy(status) => p.status = status}
     IN \E order \in SortedDesc(matching) :
          LET r == IF ~storeUp THEN Threw("StoreError")
                   ELSE Returned([i \in DOMAIN order |-> ProjectView(order[i], users)])
          IN last' = Did("listProjects", status, CatchEmpty(r))
  /\ UNCHANGED <<users, projects, nextId, now, phase, calls, storeUp>>

\* ------------------------------------------------------------ environment
\* Date.now advances
Tick ==
  /\ now < MaxClock
  /\ now' = now + 1
  /\ last' = Did("tick", Null, None)
  /\ UNCHANGED <<users, projects, nextId, phase, calls, storeUp>>

\* the connection is lost ('disconnected' / 'error'): driver calls fail
Disconnect ==
  /\ storeUp
  /\ storeUp' = FALSE
  /\ last' = Did("disconnected", Null, None)
  /\ UNCHANGED <<users, projects, nextId, now, phase, calls>>

\* the connection is back ('connected')
Reconnect ==
  /\ ~storeUp
  /\ storeUp' = TRUE
  /\ last' = Did("connected", Null, None)
  /\ UNCHANGED <<users, projects, nextId, now, phase, calls>>

\* ------------------------------------------------------------------ inputs
Blanks(n) == Rep(" ", n)
Padded(s) == Blanks(MaxPad) \o s \o Blanks(MaxPad)
Body(n) == Rep("x", n)

Closed == <<"c", "l", "o", "s", "e", "d">>
React == <<"r", "e", "a", "c", "t">>

NoExtras ==
  [budget |-> Undefined, timeframe |-> Undefined, additionalDetails |-> Undefined,
   status |-> Undefined, skills |-> Undefined]

SomeExtras ==
  [budget |-> <<"$", "9">>, timeframe |-> <<"1", "w">>,
   additionalDetails |-> Padded(<<"n", "b">>), status |-> Closed,
   skills |-> <<React>>]

Input(clientId, title, description, requirements, extras) ==
  [clientId |-> clientId, title |-> title, description |-> description,
   requirements |-> requirements, budget |-> extras.budget,
   timeframe |-> extras.timeframe, additionalDetails |-> extras.additionalDetails,
   status |-> extras.status, skills |-> extras.skills]

\* texts around a minimum length: absent, one short of it behind blanks
\* (so longer than it untrimmed), exactly it behind blanks
TextsAround(min) == {Undefined, Padded(Body(min - 1)), Padded(Body(min))}

\* a blank text, and a text of the minimum length with blanks inside
OddTitles ==
  {Blanks(MinTitleLen), <<"x">> \o Blanks(MinTitleLen - 2) \o <<"x">>}

\* every combination of the three validated texts, for three kinds of clientId
ProjectInputs ==
  {Input(c, t, d, r, NoExtras) :
     c \in {UndefinedId, MalformedId, DanglingId},
     t \in TextsAround(MinTitleLen) \cup OddTitles,
     d \in TextsAround(MinDescriptionLen),
     r \in TextsAround(MinRequirementsLen)}
    \cup {Input(1, Body(MinTitleLen), Body(MinDescriptionLen),
                Body(MinRequirementsLen), SomeExtras)}

\* a few whole inputs: well-formed or malformed clientId, valid or short title
ProjectSamples ==
  { Input(1, Padded(Body(MinTitleLen)), Body(MinDescriptionLen),
          Body(MinRequirementsLen), NoExtras),
    Input(DanglingId, Body(MinTitleLen), Padded(Body(MinDescriptionLen)),
          Body(MinRequirementsLen), SomeExtras),
    Input(MalformedId, Body(MinTitleLen), Body(MinDescriptionLen),
          Body(MinRequirementsLen), NoExtras),
    Input(1, Padded(Body(MinTitleLen - 1)), Body(MinDescriptionLen),
          Body(MinRequirementsLen), NoExtras) }

\* a partial that blanks every text field of a Project
BlankPatch ==
  [f \in {"title", "description", "requirements", "budget", "timeframe", "status"}
     |-> <<>>]

ProjectPatches == {"title" :> <<"s", "h", "o", "r", "t">>, BlankPatch}

IdSamples == {MalformedId, 1, 2}

IdArrays == UNION {[1..n -> IdSamples] : n \in 0..MaxProjects}

StatusInputs == {Undefined, Open, Closed}

\* the connection bootstrap and the process around it
Boot ==
  \/ Start
  \/ Connect
  \/ BootFind
  \/ BootCreate
  \/ Stop

\* the User operations, one createUser in flight at a time
NextUsers ==
  \/ Boot
  \/ \E data \in UserInputs : CreateUserCall("a", data)
  \/ CreateUserSave("a")
  \/ \E id \in IdInputs : GetUser(id)
  \/ \E id \in IdInputs \ {UndefinedId}, patch \in UserPatches : UpdateUser(id, patch)

SpecUsers == Init /\ [][NextUsers]_vars

\* createUser calls in flight together, racing each other and the bootstrap
NextRace ==
  \/ Boot
  \/ \E c \in Callers, data \in UserInputs : CreateUserCall(c, data)
  \/ \E c \in Callers : CreateUserSave(c)

SpecRace == Init /\ [][NextRace]_vars

\* the bootstrap of a process that keeps running
BootOnce ==
  \/ Start
  \/ Connect
  \/ BootFind
  \/ BootCreate

\* the Project writes
NextProjects ==
  \/ BootOnce
  \/ \E data \in ProjectSamples : CreateProject(data)
  \/ \E id \in IdSamples, patch \in ProjectPatches : UpdateProject(id, patch)
  \/ \E id \in IdSamples : DeleteProject(id)
  \/ \E ids \in IdArrays : DeleteProjects(ids)

SpecProjects == Init /\ [][NextProjects]_vars

\* listProjects over projects created and updated at different times, the
\* connection coming and going
NextList ==
  \/ BootOnce
  \/ \E data \in ProjectSamples : CreateProject(data)
  \/ \E id \in IdSamples, patch \in ProjectPatches : UpdateProject(id, patch)
  \/ \E status \in StatusInputs : ListProjects(status)
  \/ Tick
  \/ Disconnect
  \/ Reconnect

SpecList == Init /\ [][NextList]_vars

\* createProject over every input combination, the connection coming and going
NextCreate ==
  \/ BootOnce
  \/ Disconnect
  \/ Reconnect
  \/ \E data \in ProjectInputs : CreateProject(data)

SpecCreate == Init /\ [][NextCreate]_vars

\* the whole program
Next ==
  \/ NextUsers
  \/ NextRace
  \/ NextProjects
  \/ NextList
  \/ NextCreate

Spec == Init /\ [][Next]_vars

\* ------------------------------------------------------------ properties

\* C3: a createUser whose username or email is already stored when its insert
\* reaches the store fails with a conflict, and the users collection (hence
\* its count) is left as it was.
C3_DuplicateIsConflict ==
  [][\A c \in Callers :
       ( /\ calls[c].pc = "saving"
         /\ calls'[c].pc = "done"
         /\ \E u \in users : \/ u.username = calls[c].data.username
                             \/ u.email = calls[c].data.email )
       => ( /\ calls'[c].res = Threw("Conflict")
            /\ users' = users
            /\ Cardinality(users') = Cardinality(users) )]_vars

C3_Witness ==
  \E c \in Callers :
     /\ calls[c].pc = "done"
     /\ calls[c].res = Threw("Conflict")
     /\ \E u \in users : u.email = calls[c].data.email /\ u.username # calls[c].data.username

\* C4: of two createUser calls for the same username, never both succeed and
\* the store never holds two users with that username; when nothing but the
\* two calls themselves put their username or emails into the store, exactly
\* one succeeds and the other fails with a conflict.
C4_RaceOnUsername ==
  \A c \in Callers : \A o \in Callers \ {c} :
     ( /\ calls[c].pc = "done"
       /\ calls[o].pc = "done"
       /\ calls[c].data.username = calls[o].data.username )
     => LET n == calls[c].data.username
            keys == {calls[c].data.email, calls[o].data.email}
            mine == {calls[x].res.value : x \in {y \in {c, o} : calls[y].res.kind = "doc"}}
            won == {x \in {c, o} : calls[x].res.kind = "doc"}
        IN /\ Cardinality(won) <= 1
           /\ Cardinality({u \in users : u.username = n}) <= 1
           /\ (\A u \in users : u.username = n \/ u.email \in keys
                                  => \E m \in mine : m.id = u.id)
              => /\ Cardinality(won) = 1
                 /\ \A x \in {c, o} \ won : calls[x].res = Threw("Conflict")

C4_Witness ==
  /\ calls["a"].pc = "done" /\ calls["b"].pc = "done"
  /\ calls["a"].raced /\ calls["b"].raced
  /\ calls["a"].data.username = calls["b"].data.username
  /\ calls["a"].data.email # calls["b"].data.email
  /\ calls["a"].res = Threw("Conflict")
  /\ calls["b"].res.kind = "doc"

\* the blanks in front of a text, from position i on, and behind it
RECURSIVE BlanksBefore(_, _)
BlanksBefore(s, i) ==
  IF i <= Len(s) /\ s[i] = " " THEN 1 + BlanksBefore(s, i + 1) ELSE 0

RECURSIVE BlanksBehind(_, _)
BlanksBehind(s, i) ==
  IF i >= 1 /\ s[i] = " " THEN 1 + BlanksBehind(s, i - 1) ELSE 0

\* the length an input text has once the blanks around it are gone
TrimmedLen(s) ==
  IF s = Undefined \/ BlanksBefore(s, 1) = Len(s) THEN 0
  ELSE Len(s) - BlanksBefore(s, 1) - BlanksBehind(s, Len(s))

LengthsOk(d) ==
  /\ TrimmedLen(d.title) >= 10
  /\ TrimmedLen(d.description) >= 50
  /\ TrimmedLen(d.requirements) >= 20

\* the failure the length checks give, title first
LengthFailure(d) ==
  IF TrimmedLen(d.title) < 10
  THEN Threw("Project title must be at least 10 characters long")
  ELSE IF TrimmedLen(d.description) < 50
  THEN Threw("Project description must be at least 50 characters long")
  ELSE Threw("Project requirements must be at least 20 characters long")

\* C1 as stated: creation succeeds exactly when the three trimmed lengths
\* reach 10, 50 and 20, fails with the matching validation failure otherwise,
\* and a failed creation persists nothing.
C1_LengthsDecide ==
  [][ last'.op = "createProject"
      => /\ last'.res.kind = "doc" <=> LengthsOk(last'.arg)
         /\ ~LengthsOk(last'.arg) => last'.res = LengthFailure(last'.arg)
         /\ last'.res.kind # "doc" => projects' = projects ]_vars

\* C1 as amended: a clientId that is absent or no ObjectId string fails
\* first, with the coercion error; then the three length checks in order;
\* then the insert, which fails when the store does; creation succeeds
\* exactly when none of these fails and then persists one document holding
\* the trimmed texts, and a failed creation persists nothing.
C1_CreateProjectOutcome ==
  [][ last'.op = "createProject"
      => LET d == last'.arg
             r == last'.res
         IN /\ IF d.clientId = UndefinedId THEN r = Threw("TypeError")
               ELSE IF d.clientId = MalformedId THEN r = Threw("BSONError")
               ELSE IF ~LengthsOk(d) THEN r = LengthFailure(d)
               ELSE IF ~storeUp THEN r = Threw("StoreError")
               ELSE r.kind = "doc"
            /\ r.kind # "doc" => projects' = projects
            /\ r.kind = "doc"
               => /\ r.value \notin projects
                  /\ projects' = projects \cup {r.value}
                  /\ Len(r.value.title) = TrimmedLen(d.title)
                  /\ Len(r.value.description) = TrimmedLen(d.description)
                  /\ Len(r.value.requirements) = TrimmedLen(d.requirements) ]_vars

C1_Witness ==
  /\ last.op = "createProject"
  /\ last.arg.clientId > 0
  /\ TrimmedLen(last.arg.title) >= 10
  /\ Len(last.arg.description) >= 50
  /\ TrimmedLen(last.arg.description) < 50
  /\ last.res = Threw("Project description must be at least 50 characters long")
  /\ projects # {}

\* C2: every stored Project has a title of at least 10 characters, a
\* description of at least 50 and requirements of at least 20.
C2_StoredLengths ==
  \A p \in projects :
     /\ Len(p.title) >= 10
     /\ Len(p.description) >= 50
     /\ Len(p.requirements) >= 20

\* C5: a startup that found no admin account ends with exactly one User of
\* userType "admin"; a startup that found an admin adds no user.
C5_Bootstrap ==
  [][ /\ (phase = "creating" /\ phase' # "creating")
         => Cardinality({u \in users' : u.userType = "admin"}) = 1
      /\ (phase = "checking" /\ phase' = "up") => users' = users ]_vars

\* C6: listProjects never raises; when the fetch fails it returns the empty
\* sequence.
C6_ListNeverRaises ==
  last.op = "listProjects"
  => /\ last.res.kind = "value"
     /\ ~storeUp => last.res.value = <<>>

C6_Witness ==
  /\ last.op = "listProjects"
  /\ ~storeUp
  /\ projects # {}
  /\ last.res = Returned(<<>>)

C8_DeleteProjectsCount ==
  [][ ( /\ last'.op = "deleteProjects"
        /\ \A i \in DOMAIN last'.arg : last'.arg[i] > 0 )
      => LET hit == {p \in projects : \E i \in DOMAIN last'.arg : last'.arg[i] = p.id}
         IN /\ last'.res = Returned(Cardinality(hit))
            /\ projects' = projects \ hit
            /\ hit = {} => (last'.res = Returned(0) /\ projects' = projects) ]_vars

C8_Witness ==
  /\ last.op = "deleteProjects"
  /\ last.arg = <<1, 2>>
  /\ last.res = Returned(1)
  /\ projects # {}

\* C9: updateUser(id, {}) on a stored user returns that user's document and
\* leaves the users collection as it was (so repeating it changes nothing).
C9_EmptyUpdateIsIdentity ==
  [][ ( /\ last'.op = "updateUser"
        /\ last'.arg.patch = EmptyPatch
        /\ \E u \in users : u.id = last'.arg.id )
      => /\ users' = users
         /\ \E u \in users : u.id = last'.arg.id /\ last'.res = Found(u) ]_vars

C9_Witness ==
  /\ last.op = "updateUser"
  /\ last.arg.patch = EmptyPatch
  /\ last.res.kind = "doc"
  /\ last.res.value.isVerified
  /\ last.res.value \in users

\* C10: getUser never raises and changes nothing: it returns the stored user
\* with that id, and null for an id that is missing, malformed or absent.
C10_GetUserNeverRaises ==
  [][ last'.op = "getUser"
      => /\ last'.res.kind # "throw"
         /\ users' = users /\ projects' = projects
         /\ IF \E u \in users : u.id = last'.arg
            THEN \E u \in users : u.id = last'.arg /\ last'.res = Found(u)
            ELSE last'.res = NotFound ]_vars

C10_Witness ==
  /\ last.op = "getUser"
  /\ last.arg = MalformedId
  /\ last.res = NotFound
  /\ users # {}

====
